---- MODULE Spec2Model ----
(***************************************************************************)
(* Model of the media pipeline: the trigger views (api/views.py), the      *)
(* request validation (api/serializers.py), the classifier (api/utils.py)  *)
(* and the Celery task process_media with its helpers (api/tasks.py).      *)
(*                                                                         *)
(* The job table is a sequence of Job rows; a job's id is its index.       *)
(* Every message put on the broker by process_media.delay is one entry of  *)
(* `tasks`; an entry carries the position (pc) and the local variables of  *)
(* the execution of process_media that consumes the message.               *)
(***************************************************************************)
EXTENDS Integers, Sequences, FiniteSets, TLC

VARIABLES
    jobs,        \* the Job table: Seq of rows, id = index
    tasks,       \* executions of process_media, one per enqueued message
    localFiles,  \* input keys for which MEDIA_ROOT/<key> exists
    tempFiles,   \* temporary files on disk (named by the execution that made them)
    lastResp,    \* the last HTTP response of a trigger view
    vp           \* argument and result of a function called on its own
                 \* (validate_pipeline in ValidateSpec, _progress_for_step in ProgressSpec)

vars == <<jobs, tasks, localFiles, tempFiles, lastResp, vp>>

----------------------------------------------------------------------------
(* Bounds *)

MaxPipe == 2      \* longest stored pipeline of the job of ExecSpec
MaxReqPipe == 1   \* longest pipeline of a request to jobs/from-key/
MaxJobs == 2      \* jobs created by the trigger views
MaxRuns == 2      \* executions of one job in ExecSpec
MaxLen == 3       \* longest argument of validate_pipeline in ValidateSpec
MaxTotal == 85    \* largest step count given to _progress_for_step in ProgressSpec

----------------------------------------------------------------------------
(* Values *)

PENDING == "PENDING"
STARTED == "STARTED"
SUCCESS == "SUCCESS"
FAILURE == "FAILURE"

ALLOWED_STEPS == {"thumbnail", "watermark", "transcode_720p", "hls_720p"}

\* Step names a caller can write: the allowed ones and one that is not.
StepNames == ALLOWED_STEPS \cup {"sepia"}

\* File names: stem and suffix.
FileNames == { [stem |-> "a", suffix |-> ".jpg"],
               [stem |-> "b", suffix |-> ".mp4"],
               [stem |-> "c", suffix |-> ".txt"],
               [stem |-> "d", suffix |-> ""] }

\* An input reference uploads/<name>: the stem of its final component is
\* <<uid, stem>>, where uid is the prefix save_uploaded_file puts before the
\* file name (0: a key the client chose, without such a prefix).
Ref(uid, name) == [uid |-> uid, stem |-> name.stem, suffix |-> name.suffix]
Keys == { Ref(0, name) : name \in FileNames }

ErrMax == 4000

\* A text is its content and its length in characters.
Text(m, n) == [msg |-> m, len |-> n]
Empty == Text("", 0)
Truncate(e, n) == IF e.len <= n THEN e ELSE Text(e.msg, n)

Min(a, b) == IF a <= b THEN a ELSE b
Max(a, b) == IF a >= b THEN a ELSE b

RECURSIVE SeqsUpTo(_, _)
SeqsUpTo(S, n) ==
    IF n = 0 THEN {<<>>}
    ELSE LET shorter == SeqsUpTo(S, n - 1)
         IN shorter \cup { Append(s, x) : s \in {q \in shorter : Len(q) = n - 1}, x \in S }

Range(s) == { s[i] : i \in DOMAIN s }

----------------------------------------------------------------------------
(* api/utils.py *)

\* mimetypes.guess_type: the media type of a suffix, <<>> when unknown.
MimeOf(suffix) ==
    CASE suffix = ".jpg" -> <<"image", "jpeg">>
      [] suffix = ".mp4" -> <<"video", "mp4">>
      [] suffix = ".txt" -> <<"text", "plain">>
      [] OTHER -> <<>>

guess_kind(path) ==
    LET mime == MimeOf(path.suffix)
    IN IF mime = <<>> THEN "other"
       ELSE IF mime[1] = "image" THEN "image"
       ELSE IF mime[1] = "video" THEN "video"
       ELSE "other"

----------------------------------------------------------------------------
(* api/models.py *)

\* Job.objects.create(input_path=..., pipeline=...): the field defaults.
NewJob_no_pipeline(input_path, pipeline) ==
    [ input_path |-> input_path,
      pipeline   |-> <<>>,
      status     |-> PENDING,
      progress   |-> 0,
      outputs    |-> <<>>,
      error      |-> Empty ]

NewJob(input_path, pipeline) ==
    [ input_path |-> input_path,
      pipeline   |-> pipeline,
      status     |-> PENDING,
      progress   |-> 0,
      outputs    |-> <<>>,
      error      |-> Empty ]

----------------------------------------------------------------------------
(* api/tasks.py: helpers *)

\* _update(job, **kw): kw is the record of the keyword arguments that were passed.
\* Returns the in-memory job after the assignments.
_update_resetting(job, kw) ==
    [ job EXCEPT
        !.status   = IF "status" \in DOMAIN kw /\ kw.status # "" THEN kw.status ELSE PENDING,
        !.progress = IF "progress" \in DOMAIN kw THEN Max(0, Min(100, kw.progress)) ELSE @,
        !.error    = IF "error" \in DOMAIN kw THEN kw.error ELSE Empty,
        !.outputs  = IF "outputs_append" \in DOMAIN kw /\ kw.outputs_append # <<>>
                     THEN @ \o kw.outputs_append ELSE @ ]

_update_replacing(job, kw) ==
    [ job EXCEPT
        !.status   = IF "status" \in DOMAIN kw /\ kw.status # "" THEN kw.status ELSE @,
        !.progress = IF "progress" \in DOMAIN kw THEN Max(0, Min(100, kw.progress)) ELSE @,
        !.error    = IF "error" \in DOMAIN kw THEN kw.error ELSE @,
        !.outputs  = IF "outputs_append" \in DOMAIN kw /\ kw.outputs_append # <<>>
                     THEN kw.outputs_append ELSE @ ]

_update(job, kw) ==
    [ job EXCEPT
        !.status   = IF "status" \in DOMAIN kw /\ kw.status # "" THEN kw.status ELSE @,
        !.progress = IF "progress" \in DOMAIN kw THEN Max(0, Min(100, kw.progress)) ELSE @,
        !.error    = IF "error" \in DOMAIN kw THEN kw.error ELSE @,
        !.outputs  = IF "outputs_append" \in DOMAIN kw /\ kw.outputs_append # <<>>
                     THEN @ \o kw.outputs_append ELSE @ ]

\* job.save(update_fields=[status, progress, error, outputs, updated_at]):
\* the row takes these fields from the in-memory job, the others stay.
Save(row, job) ==
    [ row EXCEPT !.status = job.status, !.progress = job.progress,
                 !.error = job.error, !.outputs = job.outputs ]

\* _progress_for_step, for 0 <= idx <= total.  The code computes
\* int(10.0 + 85.0 * (idx / total)) in double precision.  Where 85 * idx / total
\* is no integer the rounding errors (below 1e-13) cannot carry the sum across
\* an integer, and int() yields 10 + floor(85 * idx / total).  Where it is an
\* integer m, idx / total is the double nearest to m / 85, and of m = 0..85 only
\* m = 49 comes out short: 49 / 85 rounds down to 0.5764705882352941, times 85.0
\* is 48.99999999999999, plus 10.0 is 58.99999999999999, and int() yields 58.
_progress_for_step_swapped(idx, total) ==
    IF total <= 0 THEN 100 ELSE 95 - ((85 * idx) \div total)

_progress_for_step_rounded(idx, total) ==
    IF total <= 0 THEN 100 ELSE 10 + ((170 * idx + total) \div (2 * total))

_progress_for_step(idx, total) ==
    IF total <= 0 THEN 100
    ELSE IF 85 * idx = 49 * total THEN 58
    ELSE 10 + ((85 * idx) \div total)

\* The step handlers: the descriptor each returns.
_step_thumbnail_image(base_stem) ==
    [type |-> "thumbnail", s3_key |-> <<"outputs", base_stem, "_thumb.jpg">>]

_step_watermark_image(base_stem) ==
    [type |-> "watermark", s3_key |-> <<"outputs", base_stem, "_wm.jpg">>]

_step_transcode_720p_video(base_stem) ==
    [type |-> "video_720p", s3_key |-> <<"outputs", base_stem, "_720p.mp4">>]

_step_hls_720p_video(base_stem) ==
    [type |-> "hls_720p", s3_key |-> <<"outputs/hls", base_stem, "index.m3u8">>]


\* What a handler call can do.  The image handlers call the codec library and
\* the uploader; the video handlers also run the encoder with check=True.
HandlerOutcomes(step) ==
    IF step \in {"transcode_720p", "hls_720p"}
    THEN {"ok", "encoder_stderr", "encoder_silent", "error"}
    ELSE {"ok", "error"}

\* The exception a failing handler raises.
RaisedBy(outcome) ==
    CASE outcome = "encoder_stderr" ->
           [cls |-> "CalledProcessError", stderr |-> Text("ffmpeg diagnostics", 5000),
            str |-> Text("Command returned non-zero exit status 1.", 40)]
      [] outcome = "encoder_silent" ->
           [cls |-> "CalledProcessError", stderr |-> Empty,
            str |-> Text("Command returned non-zero exit status 1.", 40)]
      [] OTHER ->
           [cls |-> "Exception", stderr |-> Empty,
            str |-> Text("handler error", 13)]

UnsupportedStep(step) ==
    [cls |-> "RuntimeError", stderr |-> Empty, str |-> Text("Unsupported step: " \o step, 23)]

NoExc == [cls |-> "", stderr |-> Empty, str |-> Empty]

\* Lines 185-210: the if/elif chain on the step name: run the handler, skip
\* the step (continue), or raise for a name that has no branch.
Dispatch_no_skip(step, input_kind) ==
    IF step \in {"thumbnail", "watermark", "transcode_720p", "hls_720p"}
    THEN "run" ELSE "unsupported"

Dispatch_image_unless_video(step, input_kind) ==
    IF step = "thumbnail" THEN (IF input_kind = "video" THEN "skip" ELSE "run")
    ELSE IF step = "watermark" THEN (IF input_kind = "video" THEN "skip" ELSE "run")
    ELSE IF step = "transcode_720p" THEN (IF input_kind # "video" THEN "skip" ELSE "run")
    ELSE IF step = "hls_720p" THEN (IF input_kind # "video" THEN "skip" ELSE "run")
    ELSE "unsupported"

Dispatch_strict(step, input_kind) ==
    IF step \in {"thumbnail", "watermark"} /\ input_kind = "image" THEN "run"
    ELSE IF step \in {"transcode_720p", "hls_720p"} /\ input_kind = "video" THEN "run"
    ELSE "unsupported"

Dispatch(step, input_kind) ==
    IF step = "thumbnail" THEN (IF input_kind # "image" THEN "skip" ELSE "run")
    ELSE IF step = "watermark" THEN (IF input_kind # "image" THEN "skip" ELSE "run")
    ELSE IF step = "transcode_720p" THEN (IF input_kind # "video" THEN "skip" ELSE "run")
    ELSE IF step = "hls_720p" THEN (IF input_kind # "video" THEN "skip" ELSE "run")
    ELSE "unsupported"

Handler(step, base_stem) ==
    CASE step = "thumbnail" -> _step_thumbnail_image(base_stem)
      [] step = "watermark" -> _step_watermark_image(base_stem)
      [] step = "transcode_720p" -> _step_transcode_720p_video(base_stem)
      [] step = "hls_720p" -> _step_hls_720p_video(base_stem)

\* The default pipeline for an empty stored or requested pipeline
\* (tasks.py lines 169-172, views.py lines 137-140); <<>>: there is none.
DefaultPipeline_any(kind) ==
    CASE kind = "image" -> <<"thumbnail">>
      [] kind = "video" -> <<"transcode_720p">>
      [] OTHER -> <<"thumbnail">>

DefaultPipeline(kind) ==
    CASE kind = "image" -> <<"thumbnail">>
      [] kind = "video" -> <<"transcode_720p">>
      [] OTHER -> <<>>

----------------------------------------------------------------------------
(* api/tasks.py: process_media, one action per stretch between two writes *)

\* A message on the broker: process_media.delay(job_id), not yet consumed.
\* The fields after `exc` are history: how the execution left (exit), what
\* the resolver did, the handler calls made with their outcomes, the progress
\* values published, the persisted outputs at load time, the step that raised.
QueuedTask(job_id) ==
    [ job_id |-> job_id, pc |-> "queued", job |-> NewJob(<<>>, <<>>),
      input_abs |-> <<>>, is_temp |-> FALSE, input_kind |-> "", base_stem |-> <<>>,
      pipeline |-> <<>>, total |-> 0, idx |-> 0, outputs |-> <<>>, exc |-> NoExc,
      exit |-> "", resolution |-> "", calls |-> <<>>, written |-> <<>>,
      outputs0 |-> <<>>, failedAt |-> 0 ]

\* One call of _update by execution t: the in-memory job changes and is saved.
Publish_storing_pipeline(t, kw, rest) ==
    LET job == _update(rest.job, kw)
    IN /\ jobs' = [jobs EXCEPT ![rest.job_id] = [Save(@, job) EXCEPT !.pipeline = rest.pipeline]]
       /\ tasks' = [tasks EXCEPT ![t] =
            [rest EXCEPT !.job = job,
                         !.written = IF "progress" \in DOMAIN kw
                                     THEN Append(@, job.progress) ELSE @]]

Publish(t, kw, rest) ==
    LET job == _update(rest.job, kw)
    IN /\ jobs' = [jobs EXCEPT ![rest.job_id] = Save(@, job)]
       /\ tasks' = [tasks EXCEPT ![t] =
            [rest EXCEPT !.job = job,
                         !.written = IF "progress" \in DOMAIN kw
                                     THEN Append(@, job.progress) ELSE @]]

\* Lines 157-158: load the job, mark it STARTED with progress 5.
TaskStart_no_status(t) ==
    /\ tasks[t].pc = "queued"
    /\ LET row == jobs[tasks[t].job_id]
       IN Publish(t, [progress |-> 5],
                  [tasks[t] EXCEPT !.job = row, !.outputs0 = row.outputs, !.pc = "resolve"])
    /\ UNCHANGED <<localFiles, tempFiles, lastResp, vp>>

TaskStart(t) ==
    /\ tasks[t].pc = "queued"
    /\ LET row == jobs[tasks[t].job_id]
       IN Publish(t, [status |-> STARTED, progress |-> 5],
                  [tasks[t] EXCEPT !.job = row, !.outputs0 = row.outputs, !.pc = "resolve"])
    /\ UNCHANGED <<localFiles, tempFiles, lastResp, vp>>

\* _maybe_download_from_s3 called by execution t: the local file if there is
\* one, else a temporary file (named after t) that download_file fills;
\* raised: download_file raised, after the temporary file was created.
_maybe_download_from_s3(rel_or_key, t, fetched) ==
    IF rel_or_key \in localFiles
    THEN [raised |-> FALSE, path |-> <<"MEDIA_ROOT", rel_or_key>>, is_temp |-> FALSE,
          created |-> {}]
    ELSE [raised |-> ~fetched, path |-> <<"tmp", t>>, is_temp |-> TRUE, created |-> {t}]

\* Lines 161-178: resolve the input (_maybe_download_from_s3), classify it,
\* choose the pipeline.  fetched: whether s3.download_file returns or raises.
Resolve(t) ==
    /\ tasks[t].pc = "resolve"
    /\ \E fetched \in BOOLEAN :
        LET self  == tasks[t]
            key   == self.job.input_path
            got   == _maybe_download_from_s3(key, t, fetched)
            kind  == guess_kind(key)
            stored == self.job.pipeline
            pipeline == IF stored = <<>> THEN DefaultPipeline(kind) ELSE stored
            resolved == [self EXCEPT
                           !.input_abs = got.path,
                           !.is_temp = got.is_temp,
                           !.resolution = IF got.is_temp THEN "downloaded" ELSE "local",
                           !.input_kind = kind,
                           !.base_stem = <<key.uid, key.stem>>]
        IN /\ key \in localFiles => fetched
           /\ tempFiles' = tempFiles \cup got.created
           /\ IF got.raised
              THEN \* download_file raised: the exception leaves process_media
                   /\ tasks' = [tasks EXCEPT ![t] =
                         [self EXCEPT !.pc = "done", !.exit = "raise",
                                      !.resolution = "failed"]]
                   /\ jobs' = jobs
              ELSE IF pipeline = <<>>
              THEN \* lines 173-175
                   Publish(t, [status |-> FAILURE,
                               error |-> Text("Unsupported file type; no pipeline.", 35),
                               progress |-> 100],
                           [resolved EXCEPT !.pc = "done", !.exit = "return"])
              ELSE /\ tasks' = [tasks EXCEPT ![t] =
                         [resolved EXCEPT !.pipeline = pipeline, !.total = Len(pipeline),
                                          !.outputs = <<>>, !.idx = 1, !.pc = "pre"]]
                   /\ jobs' = jobs
    /\ UNCHANGED <<localFiles, lastResp, vp>>

\* Where the for loop goes after step idx.
AfterStep(self) ==
    [self EXCEPT !.idx = @ + 1, !.pc = IF self.idx = self.total THEN "finalize" ELSE "pre"]

\* Line 183: the progress entering step idx.
StepPre(t) ==
    /\ tasks[t].pc = "pre"
    /\ Publish(t, [progress |-> _progress_for_step(tasks[t].idx - 1, tasks[t].total)],
               [tasks[t] EXCEPT !.pc = "step"])
    /\ UNCHANGED <<localFiles, tempFiles, lastResp, vp>>

\* Lines 185-210: dispatch on the step name.
StepRun(t) ==
    /\ tasks[t].pc = "step"
    /\ LET self == tasks[t]
           step == self.pipeline[self.idx]
           branch == Dispatch(step, self.input_kind)
       IN IF branch = "unsupported"
          THEN tasks' = [tasks EXCEPT ![t] =
                  [self EXCEPT !.exc = UnsupportedStep(step), !.failedAt = self.idx,
                               !.pc = "except"]]
          ELSE IF branch = "skip"
          THEN tasks' = [tasks EXCEPT ![t] = AfterStep(self)]
          ELSE \E outcome \in HandlerOutcomes(step) :
                 tasks' = [tasks EXCEPT ![t] =
                   IF outcome = "ok"
                   THEN [self EXCEPT !.calls = Append(@, [idx |-> self.idx, outcome |-> outcome]),
                                     !.outputs = Append(@, Handler(step, self.base_stem)),
                                     !.pc = "post"]
                   ELSE [self EXCEPT !.calls = Append(@, [idx |-> self.idx, outcome |-> outcome]),
                                     !.exc = RaisedBy(outcome), !.failedAt = self.idx,
                                     !.pc = "except"]]
    /\ UNCHANGED <<jobs, localFiles, tempFiles, lastResp, vp>>

\* Line 213: the progress after step idx.
StepPost(t) ==
    /\ tasks[t].pc = "post"
    /\ Publish(t, [progress |-> _progress_for_step(tasks[t].idx, tasks[t].total)],
               AfterStep(tasks[t]))
    /\ UNCHANGED <<localFiles, tempFiles, lastResp, vp>>

\* Line 215: all steps done.
Finalize(t) ==
    /\ tasks[t].pc = "finalize"
    /\ Publish(t, [status |-> SUCCESS, progress |-> 100, outputs_append |-> tasks[t].outputs],
               [tasks[t] EXCEPT !.pc = "finally", !.exit = "return"])
    /\ UNCHANGED <<localFiles, tempFiles, lastResp, vp>>

\* Lines 217-223: the message the except clauses store.
ErrorOf_untruncated(exc) ==
    IF exc.cls = "CalledProcessError"
    THEN (IF exc.stderr # Empty THEN exc.stderr ELSE exc.str)
    ELSE exc.str

ErrorOf(exc) ==
    IF exc.cls = "CalledProcessError"
    THEN Truncate(IF exc.stderr # Empty THEN exc.stderr ELSE exc.str, ErrMax)
    ELSE Truncate(exc.str, ErrMax)

Except_persisting(t) ==
    /\ tasks[t].pc = "except"
    /\ Publish(t, [status |-> FAILURE, error |-> ErrorOf(tasks[t].exc), progress |-> 100,
                   outputs_append |-> tasks[t].outputs],
               [tasks[t] EXCEPT !.pc = "finally", !.exit = "raise"])
    /\ UNCHANGED <<localFiles, tempFiles, lastResp, vp>>

Except_no_progress(t) ==
    /\ tasks[t].pc = "except"
    /\ Publish(t, [status |-> FAILURE, error |-> ErrorOf(tasks[t].exc)],
               [tasks[t] EXCEPT !.pc = "finally", !.exit = "raise"])
    /\ UNCHANGED <<localFiles, tempFiles, lastResp, vp>>

Except(t) ==
    /\ tasks[t].pc = "except"
    /\ Publish(t, [status |-> FAILURE, error |-> ErrorOf(tasks[t].exc), progress |-> 100],
               [tasks[t] EXCEPT !.pc = "finally", !.exit = "raise"])
    /\ UNCHANGED <<localFiles, tempFiles, lastResp, vp>>

\* Path.unlink(missing_ok=True) on a resolved path: the file systems after it.
UnlinkTemp(path) == IF path[1] = "tmp" THEN tempFiles \ {path[2]} ELSE tempFiles
UnlinkLocal(path) == IF path[1] = "MEDIA_ROOT" THEN localFiles \ {path[2]} ELSE localFiles

\* Lines 224-229: if is_temp, remove the file at input_abs.
Finally_always(t) ==
    /\ tasks[t].pc = "finally"
    /\ tempFiles' = UnlinkTemp(tasks[t].input_abs)
    /\ localFiles' = UnlinkLocal(tasks[t].input_abs)
    /\ tasks' = [tasks EXCEPT ![t].pc = "done"]
    /\ UNCHANGED <<jobs, lastResp, vp>>

Finally(t) ==
    /\ tasks[t].pc = "finally"
    /\ tempFiles' = IF tasks[t].is_temp THEN UnlinkTemp(tasks[t].input_abs) ELSE tempFiles
    /\ localFiles' = IF tasks[t].is_temp THEN UnlinkLocal(tasks[t].input_abs) ELSE localFiles
    /\ tasks' = [tasks EXCEPT ![t].pc = "done"]
    /\ UNCHANGED <<jobs, lastResp, vp>>

Worker ==
    \/ \E t \in DOMAIN tasks : TaskStart(t)
    \/ \E t \in DOMAIN tasks : Resolve(t)
    \/ \E t \in DOMAIN tasks : StepPre(t)
    \/ \E t \in DOMAIN tasks : StepRun(t)
    \/ \E t \in DOMAIN tasks : StepPost(t)
    \/ \E t \in DOMAIN tasks : Finalize(t)
    \/ \E t \in DOMAIN tasks : Except(t)
    \/ \E t \in DOMAIN tasks : Finally(t)

----------------------------------------------------------------------------
(* ExecSpec: process_media on one job that any caller stored, with any    *)
(* pipeline; the job may be handed to process_media again after a run.    *)

NoResp == [code |-> 0, detail |-> "", job_id |-> 0]
NoCall == [value |-> <<>>, called |-> FALSE, ok |-> TRUE, result |-> <<>>]

ExecInit ==
    /\ \E key \in Keys, pipeline \in SeqsUpTo(StepNames, MaxPipe) :
         jobs = <<NewJob(key, pipeline)>>
    /\ tasks = <<QueuedTask(1)>>
    /\ localFiles \in {{}, {jobs[1].input_path}}
    /\ tempFiles = {}
    /\ lastResp = NoResp
    /\ vp = NoCall

\* process_media.delay(job_id) by a caller, after the previous run has ended.
Retrigger ==
    /\ Len(tasks) < MaxRuns
    /\ \A t \in DOMAIN tasks : tasks[t].pc = "done"
    /\ tasks' = Append(tasks, QueuedTask(1))
    /\ UNCHANGED <<jobs, localFiles, tempFiles, lastResp, vp>>

ExecNext == Worker \/ Retrigger

ExecSpec == ExecInit /\ [][ExecNext]_vars


----------------------------------------------------------------------------
(* api/serializers.py *)

\* The de-duplication loop of validate_pipeline (lines 59-65).
RECURSIVE Dedupe_keep_last(_, _, _)
Dedupe_keep_last(value, seen, deduped) ==
    IF value = <<>> THEN deduped
    ELSE IF Head(value) \in Range(Tail(value))
         THEN Dedupe_keep_last(Tail(value), seen, deduped)
         ELSE Dedupe_keep_last(Tail(value), seen, Append(deduped, Head(value)))

RECURSIVE Dedupe(_, _, _)
Dedupe(value, seen, deduped) ==
    IF value = <<>> THEN deduped
    ELSE IF Head(value) \in seen
         THEN Dedupe(Tail(value), seen, deduped)
         ELSE Dedupe(Tail(value), seen \cup {Head(value)}, Append(deduped, Head(value)))

\* validate_pipeline: ok = FALSE stands for the ValidationError.
validate_pipeline_lenient(value) ==
    IF value = <<>> THEN [ok |-> TRUE, result |-> value]
    ELSE [ok |-> TRUE, result |-> Dedupe(value, {}, <<>>)]

validate_pipeline(value) ==
    IF value = <<>> THEN [ok |-> TRUE, result |-> value]
    ELSE LET bad == SelectSeq(value, LAMBDA s : s \notin ALLOWED_STEPS)
         IN IF bad # <<>>
            THEN [ok |-> FALSE, result |-> <<>>]
            ELSE [ok |-> TRUE, result |-> Dedupe(value, {}, <<>>)]

----------------------------------------------------------------------------
(* api/views.py *)

\* Requests to jobs/from-key/: a key and an optional pipeline.
Requests ==
    { [key |-> k, has_pipeline |-> TRUE, pipeline |-> p] :
        k \in Keys, p \in SeqsUpTo(StepNames, MaxReqPipe) }
    \cup { [key |-> k, has_pipeline |-> FALSE, pipeline |-> <<>>] : k \in Keys }

\* process_media.delay(job_id)
Delay_twice(job_id) == tasks' = Append(Append(tasks, QueuedTask(job_id)), QueuedTask(job_id))

Delay(job_id) == tasks' = Append(tasks, QueuedTask(job_id))

\* UploadAndCreateJobView.post: save the file under uploads/<uuid>_<name>,
\* create the job without a pipeline, enqueue.
UploadAndCreateJobView_post(file) ==
    /\ Len(jobs) < MaxJobs
    /\ LET rel_path == Ref(Len(jobs) + 1, file)
       IN /\ localFiles' = localFiles \cup {rel_path}
          /\ jobs' = Append(jobs, NewJob(rel_path, <<>>))
          /\ Delay(Len(jobs) + 1)
          /\ lastResp' = [code |-> 202, detail |-> "", job_id |-> Len(jobs) + 1]
    /\ UNCHANGED <<tempFiles, vp>>

\* CreateJobFromKeyView.post
CreateJobFromKeyView_post(req) ==
    LET ser      == IF req.has_pipeline THEN validate_pipeline(req.pipeline)
                    ELSE [ok |-> TRUE, result |-> <<>>]
        kind     == guess_kind(req.key)
        pipeline == IF ser.result = <<>> THEN DefaultPipeline(kind) ELSE ser.result
    IN IF ~ser.ok
       THEN /\ lastResp' = [code |-> 400, detail |-> "Unsupported steps", job_id |-> 0]
            /\ UNCHANGED <<jobs, tasks, localFiles, tempFiles, vp>>
       ELSE IF pipeline = <<>>
       THEN /\ lastResp' = [code |-> 400,
                            detail |-> "Unsupported file type. Provide a valid pipeline.",
                            job_id |-> 0]
            /\ UNCHANGED <<jobs, tasks, localFiles, tempFiles, vp>>
       ELSE /\ Len(jobs) < MaxJobs
            /\ jobs' = Append(jobs, NewJob(req.key, pipeline))
            /\ Delay(Len(jobs) + 1)
            /\ lastResp' = [code |-> 202, detail |-> "", job_id |-> Len(jobs) + 1]
            /\ UNCHANGED <<localFiles, tempFiles, vp>>

----------------------------------------------------------------------------
(* Spec: the trigger views create jobs, the workers execute them. *)

Init ==
    /\ jobs = <<>>
    /\ tasks = <<>>
    /\ localFiles = {}
    /\ tempFiles = {}
    /\ lastResp = NoResp
    /\ vp = NoCall

Next ==
    \/ \E file \in FileNames : UploadAndCreateJobView_post(file)
    \/ \E req \in Requests : CreateJobFromKeyView_post(req)
    \/ Worker

Spec == Init /\ [][Next]_vars


----------------------------------------------------------------------------
(* ValidateSpec: validate_pipeline applied to any list of step names, and *)
(* applied again to a list it returned.                                   *)

ValidateInit ==
    /\ jobs = <<>>
    /\ tasks = <<>>
    /\ localFiles = {}
    /\ tempFiles = {}
    /\ lastResp = NoResp
    /\ \E value \in SeqsUpTo(StepNames, MaxLen) : vp = [NoCall EXCEPT !.value = value]

ValidateCall ==
    /\ ~vp.called
    /\ vp' = [vp EXCEPT !.called = TRUE,
                        !.ok = validate_pipeline(vp.value).ok,
                        !.result = validate_pipeline(vp.value).result]
    /\ UNCHANGED <<jobs, tasks, localFiles, tempFiles, lastResp>>

ValidateAgain ==
    /\ vp.called /\ vp.ok /\ vp.result # vp.value
    /\ vp' = [NoCall EXCEPT !.value = vp.result]
    /\ UNCHANGED <<jobs, tasks, localFiles, tempFiles, lastResp>>

ValidateNext == ValidateCall \/ ValidateAgain

ValidateSpec == ValidateInit /\ [][ValidateNext]_vars


----------------------------------------------------------------------------
(* ProgressSpec: _progress_for_step called for any step count up to      *)
(* MaxTotal and any index in it, then for the following indices.          *)

ProgressInit ==
    /\ jobs = <<>>
    /\ tasks = <<>>
    /\ localFiles = {}
    /\ tempFiles = {}
    /\ lastResp = NoResp
    /\ \E total \in 0..MaxTotal, idx \in 0..MaxTotal :
         /\ (total > 0 => idx <= total)
         /\ vp = [idx |-> idx, total |-> total, called |-> FALSE, result |-> 0,
                  stepped |-> FALSE, prev |-> 0]

ProgressCall ==
    /\ ~vp.called
    /\ vp' = [vp EXCEPT !.called = TRUE, !.result = _progress_for_step(vp.idx, vp.total)]
    /\ UNCHANGED <<jobs, tasks, localFiles, tempFiles, lastResp>>

\* The call for the next index, as the loop of process_media makes it.
ProgressAdvance ==
    /\ vp.called /\ vp.idx < vp.total
    /\ vp' = [vp EXCEPT !.idx = @ + 1, !.stepped = TRUE, !.prev = vp.result,
                        !.result = _progress_for_step(vp.idx + 1, vp.total)]
    /\ UNCHANGED <<jobs, tasks, localFiles, tempFiles, lastResp>>

ProgressNext == ProgressCall \/ ProgressAdvance

ProgressSpec == ProgressInit /\ [][ProgressNext]_vars

----------------------------------------------------------------------------
(* Properties *)

Terminal == {SUCCESS, FAILURE}

\* Execution t has left process_media and no later execution of its job has
\* started: the row of the job is as t left it.
Ended(t) ==
    /\ tasks[t].pc = "done"
    /\ \A u \in DOMAIN tasks :
         (u > t /\ tasks[u].job_id = tasks[t].job_id) => tasks[u].pc = "queued"

Row(t) == jobs[tasks[t].job_id]

\* The descriptors the row has beyond those it had when t loaded it.
Appended(t) == SubSeq(Row(t).outputs, Len(tasks[t].outputs0) + 1, Len(Row(t).outputs))

\* The kind each step is for, and the type of its descriptor, as specified.
StepKind(step) ==
    CASE step \in {"thumbnail", "watermark"} -> "image"
      [] step \in {"transcode_720p", "hls_720p"} -> "video"
      [] OTHER -> "none"

StepType(step) ==
    CASE step = "thumbnail" -> "thumbnail"
      [] step = "watermark" -> "watermark"
      [] step = "transcode_720p" -> "video_720p"
      [] step = "hls_720p" -> "hls_720p"
      [] OTHER -> "none"

\* The indices of the steps of a pipeline that apply to a kind, in order.
RECURSIVE ApplicableFrom(_, _, _)
ApplicableFrom(pipeline, kind, i) ==
    IF i > Len(pipeline) THEN <<>>
    ELSE IF StepKind(pipeline[i]) = kind
         THEN <<i>> \o ApplicableFrom(pipeline, kind, i + 1)
         ELSE ApplicableFrom(pipeline, kind, i + 1)

Applicable(t) == ApplicableFrom(tasks[t].pipeline, tasks[t].input_kind, 1)

\* The indices of the steps whose handler execution t called, in call order.
Called(t) == [i \in DOMAIN tasks[t].calls |-> tasks[t].calls[i].idx]

NonDecreasing(seq) == \A i \in 1..(Len(seq) - 1) : seq[i] <= seq[i + 1]

\* C1: when step k of a run raises (handler error, encoder exit, unknown step
\* name), the job ends FAILURE with progress 100, no step after k was invoked,
\* and the persisted outputs are exactly those from before the run.
C1_FailedStepDiscardsOutputs ==
    \A t \in DOMAIN tasks :
        (Ended(t) /\ tasks[t].failedAt > 0) =>
            /\ Row(t).status = FAILURE
            /\ Row(t).progress = 100
            /\ \A i \in DOMAIN tasks[t].calls : tasks[t].calls[i].idx <= tasks[t].failedAt
            /\ Row(t).outputs = tasks[t].outputs0

\* A run of an earlier successful job whose second step raised after its
\* first step had produced a descriptor.
C1_Witness ==
    \E t \in DOMAIN tasks :
        /\ Ended(t) /\ tasks[t].failedAt = 2
        /\ tasks[t].outputs # <<>>
        /\ tasks[t].outputs0 # <<>>

\* C2: when input resolution fails, the job ends FAILURE with progress 100
\* and an error, and no step is attempted.
C2_ResolutionFailureMarksFailure ==
    \A t \in DOMAIN tasks :
        (Ended(t) /\ tasks[t].resolution = "failed") =>
            /\ Row(t).status = FAILURE
            /\ Row(t).progress = 100
            /\ Row(t).error # Empty
            /\ tasks[t].calls = <<>>

\* C3: a temporary copy made by the resolver is gone once the run has ended
\* with the job SUCCESS or FAILURE.
C3_TemporaryCopyRemoved ==
    \A t \in DOMAIN tasks :
        (Ended(t) /\ tasks[t].is_temp /\ Row(t).status \in Terminal) => t \notin tempFiles

\* C4: a run that ends in SUCCESS appended exactly one descriptor per step
\* that applies to the input kind, none for the other steps, in pipeline order.
C4_SuccessAppendsApplicable ==
    \A t \in DOMAIN tasks :
        (Ended(t) /\ Row(t).status = SUCCESS) =>
            /\ Called(t) = Applicable(t)
            /\ Len(Appended(t)) = Len(Applicable(t))
            /\ \A i \in DOMAIN Appended(t) :
                 Appended(t)[i].type = StepType(tasks[t].pipeline[Applicable(t)[i]])
            /\ SubSeq(Row(t).outputs, 1, Len(tasks[t].outputs0)) = tasks[t].outputs0

\* A successful run that appended the descriptors of two different steps.
C4_Witness ==
    \E t \in DOMAIN tasks :
        /\ Ended(t) /\ Row(t).status = SUCCESS
        /\ Len(Appended(t)) = 2
        /\ Appended(t)[1].type # Appended(t)[2].type

\* C6: the progress values one execution writes never decrease, and every
\* persisted progress is in 0..100.
C6_ProgressMonotoneInRange ==
    /\ \A t \in DOMAIN tasks :
         /\ NonDecreasing(tasks[t].written)
         /\ \A i \in DOMAIN tasks[t].written : tasks[t].written[i] \in 0..100
    /\ \A j \in DOMAIN jobs : jobs[j].progress \in 0..100

\* A run that wrote 5, both checkpoints of two steps, and 100.
C6_Witness ==
    \E t \in DOMAIN tasks :
        /\ Len(tasks[t].written) = 6
        /\ tasks[t].written[3] > tasks[t].written[2]
        /\ tasks[t].written[6] = 100

\* C7: a run that reached the step loop with a pipeline of allowed steps and
\* in which no handler call raised ends SUCCESS with progress 100, however
\* many steps do not apply to the kind; the descriptors appended are those of
\* the applicable steps, none when no step applies.
C7_SkippingIsNotAnError ==
    \A t \in DOMAIN tasks :
        ( /\ Ended(t)
          /\ tasks[t].pipeline # <<>>
          /\ Range(tasks[t].pipeline) \subseteq
                {"thumbnail", "watermark", "transcode_720p", "hls_720p"}
          /\ \A i \in DOMAIN tasks[t].calls : tasks[t].calls[i].outcome = "ok" ) =>
            /\ Row(t).status = SUCCESS
            /\ Row(t).progress = 100
            /\ Len(Appended(t)) = Len(Applicable(t))

\* A successful run in which no step applied: nothing called, nothing appended.
C7_Witness ==
    \E t \in DOMAIN tasks :
        /\ Ended(t) /\ Row(t).status = SUCCESS
        /\ Len(tasks[t].pipeline) = 2
        /\ Applicable(t) = <<>>
        /\ Appended(t) = <<>>

\* C8: with an empty stored pipeline the executor runs <<thumbnail>> for an
\* image and <<transcode_720p>> for a video; for kind other the job goes to
\* FAILURE, progress 100, error 'Unsupported file type; no pipeline.', with
\* no handler called and no output appended.
C8_DefaultPipeline ==
    \A t \in DOMAIN tasks :
        ( /\ tasks[t].resolution \in {"local", "downloaded"}
          /\ tasks[t].job.pipeline = <<>> ) =>
            /\ tasks[t].input_kind = "image" => tasks[t].pipeline = <<"thumbnail">>
            /\ tasks[t].input_kind = "video" => tasks[t].pipeline = <<"transcode_720p">>
            /\ (tasks[t].input_kind = "image" /\ Ended(t) /\ Row(t).status = SUCCESS)
                  => [i \in DOMAIN Appended(t) |-> Appended(t)[i].type] = <<"thumbnail">>
            /\ (tasks[t].input_kind = "video" /\ Ended(t) /\ Row(t).status = SUCCESS)
                  => [i \in DOMAIN Appended(t) |-> Appended(t)[i].type] = <<"video_720p">>
            /\ tasks[t].input_kind = "other" =>
                 /\ tasks[t].pc = "done"
                 /\ tasks[t].calls = <<>>
                 /\ tasks[t].written = <<5, 100>>
                 /\ Ended(t) =>
                      /\ Row(t).status = FAILURE
                      /\ Row(t).progress = 100
                      /\ Row(t).error.msg = "Unsupported file type; no pipeline."
                      /\ Row(t).outputs = tasks[t].outputs0

\* A job without a pipeline whose input is neither image nor video, failed.
C8_Witness ==
    \E t \in DOMAIN tasks :
        /\ Ended(t) /\ tasks[t].resolution = "downloaded"
        /\ tasks[t].job.pipeline = <<>> /\ tasks[t].input_kind = "other"
        /\ Row(t).status = FAILURE


\* C5: the status of a job only moves PENDING -> STARTED -> SUCCESS or
\* FAILURE, never from PENDING to a terminal value, and a row whose status
\* is SUCCESS or FAILURE is never written again.
C5_StatusMovesForward ==
    [][ \A j \in DOMAIN jobs :
          /\ j \in DOMAIN jobs'
          /\ jobs[j].status = PENDING => jobs'[j].status \in {PENDING, STARTED}
          /\ jobs[j].status = STARTED => jobs'[j].status \in {STARTED, SUCCESS, FAILURE}
          /\ jobs[j].status \in {SUCCESS, FAILURE} =>
               /\ jobs'[j].status = jobs[j].status
               /\ jobs'[j].progress = jobs[j].progress
               /\ jobs'[j].error = jobs[j].error
               /\ jobs'[j].outputs = jobs[j].outputs ]_vars

\* Two jobs of the views have been executed, one to SUCCESS and one to FAILURE.
C5_Witness ==
    \E i, j \in DOMAIN jobs :
        /\ jobs[i].status = SUCCESS /\ jobs[j].status = FAILURE
        /\ \A t \in DOMAIN tasks : tasks[t].pc = "done"

\* The first position at which a name occurs in a list.
FirstAt(value, x) == CHOOSE i \in DOMAIN value : value[i] = x /\ \A j \in 1..(i - 1) : value[j] # x

\* C9: validate_pipeline of a non-empty list raises iff a name is outside
\* {thumbnail, watermark, transcode_720p, hls_720p}; otherwise it returns the
\* names of the list, each once, in the order of their first occurrences, and
\* validating the result again returns it unchanged.
C9_ValidateDedupes ==
    (vp.called /\ vp.value # <<>>) =>
        LET allowed == {"thumbnail", "watermark", "transcode_720p", "hls_720p"}
            result  == vp.result
        IN /\ ~vp.ok <=> (\E i \in DOMAIN vp.value : vp.value[i] \notin allowed)
           /\ vp.ok =>
                /\ Range(result) = Range(vp.value)
                /\ \A i, j \in DOMAIN result : i # j => result[i] # result[j]
                /\ \A i, j \in DOMAIN result :
                     i < j => FirstAt(vp.value, result[i]) < FirstAt(vp.value, result[j])
                /\ validate_pipeline(result) = [ok |-> TRUE, result |-> result]

\* A list with a repeated name was validated: thumbnail, watermark, thumbnail.
C9_Witness ==
    /\ vp.called /\ vp.ok
    /\ vp.value = <<"thumbnail", "watermark", "thumbnail">>
    /\ vp.result = <<"thumbnail", "watermark">>

\* The requests the view has to reject: a pipeline with a name outside the
\* allow-list, or no (or an empty) pipeline for a key of kind other.
Rejectable(req) ==
    \/ /\ req.has_pipeline
       /\ \E i \in DOMAIN req.pipeline :
            req.pipeline[i] \notin {"thumbnail", "watermark", "transcode_720p", "hls_720p"}
    \/ /\ (~req.has_pipeline \/ req.pipeline = <<>>)
       /\ guess_kind(req.key) = "other"

\* C10: handling such a request creates no job and enqueues no execution
\* (and is answered 400).
C10_RejectedBeforeAnyEffect ==
    [][ \A req \in Requests :
          (Rejectable(req) /\ CreateJobFromKeyView_post(req)) =>
              /\ jobs' = jobs
              /\ tasks' = tasks
              /\ lastResp'.code = 400 ]_vars

\* A request with an unsupported step was answered 400 after a job had been
\* created: the table and the queue still hold that one job.
C10_Witness ==
    /\ lastResp.code = 400
    /\ lastResp.detail = "Unsupported steps"
    /\ Len(jobs) = 1 /\ Len(tasks) = 1


\* C11: _progress_for_step(0, n) = 10 and _progress_for_step(n, n) = 95 for
\* n > 0, _progress_for_step(i, 0) = 100, and for 0 <= i <= n with n > 0 the
\* result is 10 + floor(85 * i / n), within 10..95 and non-decreasing in i.
C11_ProgressFormula ==
    vp.called =>
        /\ vp.total = 0 => vp.result = 100
        /\ vp.total > 0 =>
             /\ vp.idx = 0 => vp.result = 10
             /\ vp.idx = vp.total => vp.result = 95
             /\ vp.result = 10 + ((85 * vp.idx) \div vp.total)
             /\ vp.result \in 10..95
             /\ vp.stepped => vp.prev <= vp.result

\* C12: in every state of every job, the error field is non-empty only if the
\* status is FAILURE, and it is at most 4000 characters long.
C12_ErrorOnlyOnFailure ==
    \A j \in DOMAIN jobs :
        /\ jobs[j].error # Empty => jobs[j].status = FAILURE
        /\ jobs[j].error.len <= 4000

\* A job failed with encoder diagnostics of 5000 characters, stored cut to 4000.
C12_Witness ==
    \E t \in DOMAIN tasks :
        /\ tasks[t].pc = "done"
        /\ tasks[t].exc.cls = "CalledProcessError"
        /\ tasks[t].exc.stderr.len > 4000
        /\ Row(t).status = FAILURE
        /\ Row(t).error.len = 4000

\* The job a step has just created, and its fields other than the pipeline.
Created == jobs'[Len(jobs')]

CreatedFresh ==
    /\ Created.status = PENDING
    /\ Created.progress = 0
    /\ Created.outputs = <<>>
    /\ Created.error = Empty

\* C13 as stated: every job the triggering layer creates (upload view and
\* create-from-key view alike) starts PENDING with progress 0, empty outputs,
\* empty error and a non-empty pipeline stored on the record.
C13_CreatedWithResolvedPipeline ==
    [][Len(jobs') > Len(jobs) => (CreatedFresh /\ Created.pipeline # <<>>)]_vars

\* C13 amended: every job the triggering layer creates starts PENDING with
\* progress 0, empty outputs and empty error.  The create-from-key view stores a
\* non-empty pipeline, the validated one of the request or else the default of
\* the key's kind; the upload view stores an empty pipeline, which the executor
\* resolves by kind when it runs.
C13_CreatedByView ==
    [][Len(jobs') > Len(jobs) =>
         /\ CreatedFresh
         /\ \A req \in Requests : CreateJobFromKeyView_post(req) =>
              /\ Created.pipeline # <<>>
              /\ Created.pipeline =
                   IF req.has_pipeline /\ validate_pipeline(req.pipeline).result # <<>>
                   THEN validate_pipeline(req.pipeline).result
                   ELSE DefaultPipeline(guess_kind(req.key))
         /\ \A file \in FileNames : UploadAndCreateJobView_post(file) =>
              Created.pipeline = <<>>]_vars

\* An uploaded job and a job created from a key, both as created.
C13_Witness ==
    /\ Len(jobs) = 2
    /\ \A j \in DOMAIN jobs : jobs[j].status = PENDING /\ jobs[j].progress = 0
    /\ \E j, k \in DOMAIN jobs :
         /\ jobs[j].pipeline = <<>> /\ jobs[j].input_path \in localFiles
         /\ jobs[k].pipeline # <<>> /\ jobs[k].input_path \in Keys

\* Execution t has resolved its input (or failed to).
Resolved(t) == tasks[t].resolution # ""

\* C14: when a file exists at the local storage root joined with the input
\* reference, every resolution of it returns that path with is_temp false and
\* creates no temporary file, and no exit path of the executor deletes the
\* local file: it is still there after every run that used it.
C14_LocalInputUsedInPlace ==
    \A t \in DOMAIN tasks :
        LET key == jobs[tasks[t].job_id].input_path
        IN /\ (Resolved(t) /\ key \in localFiles) => tasks[t].resolution = "local"
           /\ tasks[t].resolution = "local" =>
                /\ tasks[t].input_abs = <<"MEDIA_ROOT", key>>
                /\ ~tasks[t].is_temp
                /\ t \notin tempFiles
                /\ key \in localFiles

\* Two runs on the same local file have both left process_media, one of them
\* through the except clause, and no temporary file was ever made.
C14_Witness ==
    /\ Len(tasks) = 2
    /\ \A t \in DOMAIN tasks : tasks[t].pc = "done" /\ tasks[t].resolution = "local"
    /\ \E t \in DOMAIN tasks : tasks[t].exit = "raise"
    /\ jobs[1].input_path \in localFiles
    /\ tempFiles = {}

\* The executions of job j, and those of them that are inside process_media.
ExecutionsOf(j) == {t \in DOMAIN tasks : tasks[t].job_id = j}
Running(t) == tasks[t].pc \notin {"queued", "done"}

\* C15: the triggering layer enqueues exactly one execution per job, when it
\* creates the job, so no two executions ever hold the same job and at most one
\* worker at a time writes the fields of a given job.
C15_OneExecutionPerJob ==
    /\ \A j \in DOMAIN jobs : Cardinality(ExecutionsOf(j)) = 1
    /\ \A t \in DOMAIN tasks : tasks[t].job_id \in DOMAIN jobs
    /\ \A t, u \in DOMAIN tasks :
         (Running(t) /\ Running(u) /\ tasks[t].job_id = tasks[u].job_id) => t = u

\* Two distinct jobs are being executed at the same time.
C15_Witness ==
    \E t, u \in DOMAIN tasks :
        /\ tasks[t].job_id # tasks[u].job_id
        /\ Running(t) /\ Running(u)
        /\ tasks[t].written # <<>> /\ tasks[u].written # <<>>

\* Execution t has left process_media through its final update (line 215).
Succeeded(t) == tasks[t].pc = "done" /\ tasks[t].job.status = SUCCESS

\* C16: when process_media runs again on a job whose earlier run ended in
\* SUCCESS and succeeds again, the persisted outputs are the first run's
\* descriptors followed by the second run's, nothing replaced or deduplicated.
C16_RerunAppendsOutputs ==
    \A t, u \in DOMAIN tasks :
        (u = t + 1 /\ Succeeded(t) /\ Succeeded(u)) =>
            /\ tasks[u].outputs0 = tasks[t].outputs0 \o tasks[t].outputs
            /\ tasks[u].job.outputs = tasks[t].outputs0 \o tasks[t].outputs \o tasks[u].outputs
            /\ Ended(u) => Row(u).outputs = tasks[u].job.outputs
            /\ tasks[u].outputs = tasks[t].outputs

\* Two successful runs that each produced descriptors: the row holds them twice.
C16_Witness ==
    /\ Len(tasks) = 2
    /\ Succeeded(1) /\ Succeeded(2)
    /\ tasks[1].outputs # <<>>
    /\ Len(jobs[1].outputs) = 2 * Len(tasks[1].outputs)
    /\ jobs[1].outputs[1] = jobs[1].outputs[Len(tasks[1].outputs) + 1]

\* The checkpoints of steps 1..k of n: progress before and after each step.
RECURSIVE Checkpoints(_, _)
Checkpoints(k, n) ==
    IF k = 0 THEN <<>>
    ELSE Checkpoints(k - 1, n) \o
         <<_progress_for_step(k - 1, n), _progress_for_step(k, n)>>

\* C17: for every step i of n that does not raise, executed or skipped as
\* inapplicable, the executor publishes progress_for(i-1, n) before it and
\* progress_for(i, n) after it, before going on to step i+1 or to the final
\* update; so every run that ends in SUCCESS published 95 before 100.
C17_CheckpointsAroundEveryStep ==
    \A t \in DOMAIN tasks :
        /\ tasks[t].pc \in {"pre", "finalize"} =>
             tasks[t].written = <<5>> \o Checkpoints(tasks[t].idx - 1, tasks[t].total)
        /\ Succeeded(t) =>
             /\ Len(tasks[t].written) >= 2
             /\ tasks[t].written[Len(tasks[t].written) - 1] = 95
             /\ tasks[t].written[Len(tasks[t].written)] = 100

\* C18: a run whose n steps all apply to the kind and all succeed writes the
\* progress values 5 (with STARTED), then progress_for(i-1, n) and
\* progress_for(i, n) for i = 1..n, then 100 (with SUCCESS): 5, 10, 95, 100 for
\* n = 1 and 5, 10, 52, 52, 95, 100 for n = 2.
C18_ProgressSequence ==
    \A t \in DOMAIN tasks :
        (Succeeded(t) /\ Len(tasks[t].calls) = tasks[t].total) =>
            /\ tasks[t].written =
                 <<5>> \o Checkpoints(tasks[t].total, tasks[t].total) \o <<100>>
            /\ tasks[t].total = 1 => tasks[t].written = <<5, 10, 95, 100>>
            /\ tasks[t].total = 2 => tasks[t].written = <<5, 10, 52, 52, 95, 100>>
            /\ Ended(t) => (Row(t).status = SUCCESS /\ Row(t).progress = 100)

\* A run of two applicable steps has succeeded.
C18_Witness ==
    \E t \in DOMAIN tasks :
        /\ Succeeded(t)
        /\ tasks[t].total = 2
        /\ Len(tasks[t].calls) = 2
        /\ tasks[t].written = <<5, 10, 52, 52, 95, 100>>

\* C19: no job stays STARTED: once every external call of a run has returned
\* or raised, so that the run has left process_media, the job it set to STARTED
\* is SUCCESS or FAILURE with progress 100, whatever error occurred.
C19_NoJobStaysStarted ==
    \A t \in DOMAIN tasks :
        Ended(t) => (Row(t).status \in Terminal /\ Row(t).progress = 100)

\* C20: when the remote fetch fails inside the resolver, after the resolver
\* has created its temporary file, no temporary file of the run is left once
\* process_media has exited.
C20_FailedFetchLeavesNoTemporary ==
    \A t \in DOMAIN tasks :
        (tasks[t].pc = "done" /\ tasks[t].resolution = "failed") => t \notin tempFiles

\* The row of execution t before and after a step.
RowBefore(t) == jobs[tasks[t].job_id]
RowAfter(t) == jobs'[tasks[t].job_id]

\* C21: each call of _update changes only the fields it was given.  A
\* progress-only update (lines 183, 213) leaves the persisted status, error and
\* outputs; an update without outputs_append (lines 158, 171, 219, 222) leaves
\* the outputs; the update with outputs_append (line 215) keeps the descriptors
\* already there and adds the new ones at the end, and leaves the error.
C21_UpdateChangesOnlyGivenFields ==
    [][\A t \in DOMAIN tasks :
         /\ (StepPre(t) \/ StepPost(t)) =>
              /\ RowAfter(t).status = RowBefore(t).status
              /\ RowAfter(t).error = RowBefore(t).error
              /\ RowAfter(t).outputs = RowBefore(t).outputs
         /\ (TaskStart(t) \/ Resolve(t) \/ Except(t)) =>
              RowAfter(t).outputs = RowBefore(t).outputs
         /\ TaskStart(t) => RowAfter(t).error = RowBefore(t).error
         /\ Finalize(t) =>
              /\ RowAfter(t).outputs = RowBefore(t).outputs \o tasks[t].outputs
              /\ RowAfter(t).error = RowBefore(t).error]_vars

\* A progress-only update has been made on a row that holds descriptors of an
\* earlier run: they are still there and the status is still STARTED.
C21_Witness ==
    /\ Len(tasks) = 2
    /\ tasks[2].pc = "step"
    /\ tasks[2].written = <<5, 10>>
    /\ jobs[1].outputs # <<>>
    /\ jobs[1].status = STARTED
    /\ jobs[1].progress = 10

\* C22: execution never changes the job's id, input_path or stored pipeline.
\* No step of process_media changes them on any row (the id of a job is its
\* place in jobs), and a default pipeline the executor chose for an empty
\* stored pipeline is not written to the record.
C22_ExecutionKeepsIdentity ==
    [][/\ \A j \in DOMAIN jobs :
            /\ j \in DOMAIN jobs'
            /\ jobs'[j].input_path = jobs[j].input_path
            /\ jobs'[j].pipeline = jobs[j].pipeline
       /\ \A t \in DOMAIN tasks :
            /\ t \in DOMAIN tasks'
            /\ tasks'[t].job_id = tasks[t].job_id]_vars

\* A run on a job with a local input and an empty stored pipeline has succeeded
\* with the default pipeline of its kind, and the record still holds none.
C22_Witness ==
    \E t \in DOMAIN tasks :
        /\ Succeeded(t)
        /\ tasks[t].pipeline # <<>>
        /\ tasks[t].outputs # <<>>
        /\ Row(t).pipeline = <<>>
        /\ Row(t).input_path \in localFiles

\* C23: in every state of a job that is executed at most once, PENDING goes
\* with progress 0, STARTED with a progress of 5 to 95, and progress is 100
\* exactly when the status is SUCCESS or FAILURE.
C23_StatusProgressCoupling ==
    \A j \in DOMAIN jobs :
        /\ jobs[j].status = PENDING => jobs[j].progress = 0
        /\ jobs[j].status = STARTED => jobs[j].progress \in 5..95
        /\ jobs[j].progress = 100 <=> jobs[j].status \in Terminal

\* One job is STARTED at its last checkpoint while another has failed.
C23_Witness ==
    \E j, k \in DOMAIN jobs :
        /\ jobs[j].status = STARTED /\ jobs[j].progress = 95
        /\ jobs[k].status = FAILURE /\ jobs[k].progress = 100

\* C24: two distinct jobs never write the same output location: when
\* executions of two different jobs have run the same step, the location the
\* step wrote (the local path is MEDIA_ROOT joined with the storage key)
\* differs between them.
C24_DistinctJobsDistinctOutputs ==
    \A t, u \in DOMAIN tasks :
        tasks[t].job_id # tasks[u].job_id =>
            \A i \in DOMAIN tasks[t].outputs, k \in DOMAIN tasks[u].outputs :
                tasks[t].outputs[i].type = tasks[u].outputs[k].type =>
                    tasks[t].outputs[i].s3_key # tasks[u].outputs[k].s3_key

\* Execution t runs a job whose input classifies as other and whose stored
\* pipeline is non-empty and made of allowed step names, and its input
\* resolution succeeded.
OtherWithPipeline(t) ==
    /\ guess_kind(Row(t).input_path) = "other"
    /\ Row(t).pipeline # <<>>
    /\ Range(Row(t).pipeline) \subseteq ALLOWED_STEPS
    /\ tasks[t].resolution \in {"local", "downloaded"}

\* C25: a job whose input classifies as other and whose stored pipeline is
\* non-empty and made only of allowed step names invokes no step handler, at
\* any point of its run, and ends SUCCESS with progress 100 and no appended
\* outputs, provided input resolution succeeds.
C25_OtherKindSkipsEverything ==
    \A t \in DOMAIN tasks :
        OtherWithPipeline(t) =>
            /\ tasks[t].calls = <<>>
            /\ tasks[t].outputs = <<>>
            /\ tasks[t].exc = NoExc
            /\ Ended(t) =>
                 /\ Row(t).status = SUCCESS
                 /\ Row(t).progress = 100
                 /\ Appended(t) = <<>>
                 /\ Row(t).error = Empty

\* A text file with two stored steps, one for images and one for videos, has
\* been run to the end.
C25_Witness ==
    \E t \in DOMAIN tasks :
        /\ OtherWithPipeline(t)
        /\ Ended(t)
        /\ Row(t).input_path.suffix = ".txt"
        /\ Row(t).pipeline = <<"thumbnail", "hls_720p">>
        /\ Row(t).status = SUCCESS
        /\ Row(t).outputs = <<>>

====
